---- MODULE Spec2Model ----
(***************************************************************************)
(* A model of the trpc-openapi request pipeline:                           *)
(*   - the AWS Lambda adapter      (src/adapters/aws-lambda.ts)            *)
(*   - the node-http handler       (src/adapters/node-http/core.ts)        *)
(*   - the procedure cache         (src/adapters/node-http/procedures.ts)  *)
(*   - the error conversion        (src/adapters/node-http/errors.ts)      *)
(*                                                                         *)
(* Strings of the program that the code takes apart are sequences of       *)
(* tokens: a path is a sequence of "/" tokens and segment tokens, so       *)
(* "/users/:id" is <<"/", "users", "/", ":id">>.  JavaScript objects are   *)
(* sets of <<key, value>> pairs, and {} is the empty set of pairs.         *)
(***************************************************************************)
EXTENDS Integers, Sequences, FiniteSets, TLC

VARIABLES
    router,     \* opts.router: the procedure record, in Object.entries order
    hooks,      \* opts.responseMeta / opts.onError as configured
    entry,      \* which exported handler the request was given to
    pc,         \* position of the request in the handler code
    event,      \* the gateway event (Lambda entry)
    req,        \* the node request: method, url, headers, body, query, next
    found,      \* result of getProcedure(method, path)
    input,      \* core.ts `let input`
    ctx,        \* core.ts `let ctx`
    data,       \* core.ts `let data`
    cause,      \* the value in flight between a throw and its catch
    res,        \* the node response written through sendResponse
    ret,        \* the value the Lambda handler resolves to
    log,        \* what has been executed for the current request
    coerced,    \* procedures whose input schema had _def.coerce set
    seen,       \* the response to the first successful probe request
    doc,        \* a documentation request: its inputs and its results
    calls       \* the invocations in flight on one node-http handler

vars == <<router, hooks, entry, pc, event, req, found, input, ctx, data,
          cause, res, ret, log, coerced, seen, doc, calls>>

----------------------------------------------------------------------------
(* Bounds *)

MaxProcs == 2       \* procedures in a router drawn for the lookup checks
MaxFields == 2      \* fields of an object schema drawn for documentation
MaxPathParams == 2  \* path-parameter names drawn for documentation
MaxCalls == 2       \* invocations in flight on one handler

----------------------------------------------------------------------------
(* Paths: utils/path *)

Slash == "/"

\* segments that start with ':' in the vocabulary of the model
ParamSegs == {":id", ":name"}

ParamName(seg) ==
    CASE seg = ":id" -> "id"
      [] seg = ":name" -> "name"
      [] OTHER -> seg

StripLeadingSlash(p) ==
    IF Len(p) > 0 /\ p[1] = Slash THEN Tail(p) ELSE p

StripTrailingSlash(p) ==
    IF Len(p) > 0 /\ p[Len(p)] = Slash THEN SubSeq(p, 1, Len(p) - 1) ELSE p

\* one leading and one trailing slash are dropped, then a single leading
\* slash is put back
normalizePath(p) == <<Slash>> \o StripTrailingSlash(StripLeadingSlash(p))

\* the compiled pattern: one element per token of the template
getPathRegExp(path) ==
    [i \in 1..Len(path) |->
        IF path[i] \in ParamSegs
        THEN [kind |-> "param", text |-> ParamName(path[i])]
        ELSE [kind |-> "lit", text |-> path[i]]]

\* RegExp.prototype.test on a compiled pattern: anchored at both ends,
\* a literal matches itself, a parameter matches one segment
RegExpTest(re, path) ==
    /\ Len(re) = Len(path)
    /\ \A i \in 1..Len(re) :
          IF re[i].kind = "lit"
          THEN path[i] = re[i].text
          ELSE path[i] # Slash

\* RegExp.prototype.exec(path).groups of a pattern that matches: an object,
\* that is a set of <<key, value>> pairs
RegExpGroups(re, path) ==
    {<<re[i].text, path[i]>> : i \in {j \in 1..Len(re) : re[j].kind = "param"}}

----------------------------------------------------------------------------
(* Procedures: utils/procedure, adapters/node-http/procedures *)

OpenApiMethods == {"GET", "POST", "PATCH", "PUT", "DELETE"}

\* forEachOpenApiProcedure: the procedures handed to the callback, in the
\* order of Object.entries(procedureRecord); each is given with its index
RECURSIVE forEachOpenApiProcedure(_, _)
forEachOpenApiProcedure(procedureRecord, i) ==
    IF i > Len(procedureRecord) THEN <<>>
    ELSE LET procedure == procedureRecord[i]
             rest == forEachOpenApiProcedure(procedureRecord, i + 1)
         IN  IF procedure.openapi /\ procedure.enabled /\ procedure.type # "none"
             THEN <<[path |-> procedure.name, type |-> procedure.type,
                     procedure |-> i, method |-> procedure.method,
                     openapiPath |-> procedure.path]>> \o rest
             ELSE rest

\* a variant whose inner Map compares patterns by value: set() on a key
\* that is there keeps the place of the key and replaces its descriptor
procedureCacheByPattern(r) ==
    LET visited == forEachOpenApiProcedure(r, 1)
    IN  [m \in OpenApiMethods |->
            LET mine == SelectSeq(visited, LAMBDA v :
                            v.method = m /\ v.type \in {"mutation", "query"})
                re(k) == getPathRegExp(normalizePath(mine[k].openapiPath))
                firsts == {k \in 1..Len(mine) :
                             \A j \in 1..(k - 1) : re(j) # re(k)}
                last(k) == CHOOSE j \in k..Len(mine) :
                             /\ re(j) = re(k)
                             /\ \A o \in (j + 1)..Len(mine) : re(o) # re(k)
                place(n) == CHOOSE k \in firsts :
                             Cardinality({f \in firsts : f < k}) = n - 1
            IN  [n \in 1..Cardinality(firsts) |->
                    [re |-> re(place(n)),
                     type |-> mine[last(place(n))].type,
                     path |-> mine[last(place(n))].path,
                     procedure |-> mine[last(place(n))].procedure]]]

\* createProcedureCache, the build: method -> entries in insertion order.
\* Every getPathRegExp call gives a fresh RegExp object, and the inner Map
\* is keyed by object identity, so set() always appends.
procedureCache(r) ==
    LET visited == forEachOpenApiProcedure(r, 1)
    IN  [m \in OpenApiMethods |->
            LET mine == SelectSeq(visited, LAMBDA v :
                            v.method = m /\ v.type \in {"mutation", "query"})
            IN  [k \in 1..Len(mine) |->
                    [re |-> getPathRegExp(normalizePath(mine[k].openapiPath)),
                     type |-> mine[k].type,
                     path |-> mine[k].path,
                     procedure |-> mine[k].procedure]]]

NoProcedure == [ok |-> FALSE, type |-> "unknown", path |-> "undefined",
                procedure |-> 0, pathInput |-> {}]

\* Array.prototype.find over the keys of the method's Map
RECURSIVE FindRegExp(_, _, _)
FindRegExp(entries, path, k) ==
    IF k > Len(entries) THEN 0
    ELSE IF RegExpTest(entries[k].re, path) THEN k
    ELSE FindRegExp(entries, path, k + 1)

\* createProcedureCache, the returned lookup function
getProcedureLast(r, method, path) ==
    IF method \notin OpenApiMethods THEN NoProcedure
    ELSE LET entries == procedureCache(r)[method]
             hits == {k \in 1..Len(entries) : RegExpTest(entries[k].re, path)}
         IN  IF hits = {} THEN NoProcedure
             ELSE LET k == CHOOSE h \in hits : \A o \in hits : o <= h
                  IN  [ok |-> TRUE, type |-> entries[k].type,
                       path |-> entries[k].path,
                       procedure |-> entries[k].procedure,
                       pathInput |-> RegExpGroups(entries[k].re, path)]

getProcedureNoGroups(r, method, path) ==
    IF method \notin OpenApiMethods THEN NoProcedure
    ELSE LET entries == procedureCache(r)[method]
             k == FindRegExp(entries, path, 1)
         IN  IF k = 0 THEN NoProcedure
             ELSE [ok |-> TRUE, type |-> entries[k].type,
                   path |-> entries[k].path,
                   procedure |-> entries[k].procedure,
                   pathInput |-> {}]

getProcedure(r, method, path) ==
    IF method \notin OpenApiMethods THEN NoProcedure
    ELSE LET entries == procedureCache(r)[method]
             k == FindRegExp(entries, path, 1)
         IN  IF k = 0 THEN NoProcedure
             ELSE [ok |-> TRUE, type |-> entries[k].type,
                   path |-> entries[k].path,
                   procedure |-> entries[k].procedure,
                   pathInput |-> RegExpGroups(entries[k].re, path)]

----------------------------------------------------------------------------
(* URL of the request: core.ts lines 100-102 *)

\* new URL(reqUrl.startsWith('/') ? `http://127.0.0.1${reqUrl}` : reqUrl):
\* a url that does not start with a slash is parsed as it stands, and a
\* relative one makes the URL constructor throw a TypeError
UrlParses(reqUrl) == Len(reqUrl) > 0 /\ reqUrl[1] = Slash

UrlPathname(reqUrl) == reqUrl

----------------------------------------------------------------------------
(* Values shared by the specifications *)

\* JavaScript values: undefined, an object (its own enumerable properties as
\* <<key, value>> pairs) and an array
Undefined == [kind |-> "undefined", fields |-> {}, items |-> <<>>]
Obj(f) == [kind |-> "object", fields |-> f, items |-> <<>>]
Arr(s) == [kind |-> "array", fields |-> {}, items |-> s]

NoEvent == [version |-> "none", method |-> "GET", path |-> <<Slash>>,
            contentType |-> "none", body |-> "none", query |-> "none"]

NoRequest == [method |-> "GET", url |-> <<Slash>>, contentType |-> "none",
              parsed |-> FALSE, body |-> Undefined, raw |-> "",
              query |-> {}, next |-> FALSE]

NoCause == [k |-> "none", code |-> "none", message |-> "none",
            issues |-> "undefined"]

NoResponse == [sent |-> 0, statusCode |-> 0, headers |-> {}, body |-> Undefined]

\* no documentation request: the handlers never document
NoDoc == [schema |-> "none", pathParameters |-> <<>>, inType |-> "none",
          contentTypes |-> <<>>,
          example |-> [defined |-> FALSE, keys |-> {}],
          parameters |-> "none", requestBody |-> "none"]

\* no invocation in flight
NoCalls == <<>>

NoReturn == [returned |-> FALSE, statusCode |-> 0, headers |-> {},
             body |-> Undefined]

NoLog == [lookups |-> 0, decoded |-> 0, ctxCalls |-> 0, invoked |-> 0,
          invokedWith |-> Undefined, invokedCtx |-> Undefined,
          onError |-> <<>>, metaCalls |-> 0, next |-> 0,
          failed |-> "none", thrown |-> NoCause, caught |-> <<>>]

NoHooks == [responseMeta |-> "none", onError |-> FALSE, throws |-> FALSE]

\* a procedure of the router: its key in the record, its openapi meta, its
\* type, and what its input parser is: void, an object with required keys
\* or an array, and whether a field (or the item) is a coercible primitive.
\* shares is the index of a procedure whose field schema object this
\* procedure's parser also holds, as a member of a union with a string,
\* where its own coercion pass does not reach (0: none); echo says that the
\* logic returns its parsed input
Proc(name, method, path, type, shape, required) ==
    [name |-> name, openapi |-> TRUE, enabled |-> TRUE, method |-> method,
     path |-> path, type |-> type, shape |-> shape, required |-> required,
     coercible |-> FALSE, shares |-> 0, echo |-> FALSE]

----------------------------------------------------------------------------
(* JavaScript helpers *)

\* the value JSON.parse gives for the bodies of the model; ok is FALSE where
\* it throws a SyntaxError
JsonParse(raw) ==
    CASE raw = "{name:Aphex}" -> [ok |-> TRUE, value |-> Obj({<<"name", "Aphex">>})]
      [] raw = "[Steve,Mary]" -> [ok |-> TRUE, value |-> Arr(<<"Steve", "Mary">>)]
      [] OTHER -> [ok |-> FALSE, value |-> Undefined]

\* querystring.parse never throws: a text without '=' is a key with value ''
QsParse(raw) == Obj({<<raw, "">>})

\* what an object spread {...v} copies: the own enumerable properties
SpreadFields(v) ==
    CASE v.kind = "object" -> v.fields
      [] v.kind = "array" ->
            {<<CASE i = 1 -> "0" [] i = 2 -> "1" [] OTHER -> "n", v.items[i]>> :
                i \in 1..Len(v.items)}
      [] OTHER -> {}

Keys(f) == {p[1] : p \in f}

\* a spread in which the earlier property is kept
SpreadFirstWins(a, b) == a \cup {p \in b : p[1] \notin Keys(a)}

\* {...a, ...b}: a later property overwrites an earlier one of the same key
Spread(a, b) == {p \in a : p[1] \notin Keys(b)} \cup b

\* JSON.stringify: a property whose value is undefined is left out; the
\* text is held as the value it denotes, undefined where there is no text
JsonStringify(v) ==
    IF v.kind = "object"
    THEN Obj({p \in v.fields : p[2] # "undefined"})
    ELSE v

----------------------------------------------------------------------------
(* Errors: adapters/node-http/errors, @trpc/server *)

TRPC_ERROR_CODES_BY_KEY ==
    {"PARSE_ERROR", "BAD_REQUEST", "NOT_FOUND", "INTERNAL_SERVER_ERROR",
     "UNAUTHORIZED", "FORBIDDEN", "TIMEOUT", "CONFLICT", "CLIENT_CLOSED_REQUEST",
     "NOT_IMPLEMENTED", "BAD_GATEWAY", "SERVICE_UNAVAILABLE", "GATEWAY_TIMEOUT",
     "UNSUPPORTED_MEDIA_TYPE", "METHOD_NOT_SUPPORTED", "PRECONDITION_FAILED",
     "PAYLOAD_TOO_LARGE", "UNPROCESSABLE_CONTENT", "TOO_MANY_REQUESTS"}

TRPC_ERROR_CODE_HTTP_STATUS(code) ==
    CASE code = "PARSE_ERROR" -> 400
      [] code = "BAD_REQUEST" -> 400
      [] code = "NOT_FOUND" -> 404
      [] code = "INTERNAL_SERVER_ERROR" -> 500
      [] code = "UNAUTHORIZED" -> 401
      [] code = "FORBIDDEN" -> 403
      [] code = "TIMEOUT" -> 408
      [] code = "CONFLICT" -> 409
      [] code = "CLIENT_CLOSED_REQUEST" -> 499
      [] code = "NOT_IMPLEMENTED" -> 501
      [] code = "BAD_GATEWAY" -> 502
      [] code = "SERVICE_UNAVAILABLE" -> 503
      [] code = "GATEWAY_TIMEOUT" -> 504
      [] code = "UNSUPPORTED_MEDIA_TYPE" -> 415
      [] code = "METHOD_NOT_SUPPORTED" -> 405
      [] code = "PRECONDITION_FAILED" -> 412
      [] code = "PAYLOAD_TOO_LARGE" -> 413
      [] code = "UNPROCESSABLE_CONTENT" -> 422
      [] code = "TOO_MANY_REQUESTS" -> 429
      [] OTHER -> 500

\* getHTTPStatusCodeFromError(error) ?? 500
getHTTPStatusCodeFromError(error) == TRPC_ERROR_CODE_HTTP_STATUS(error.code)

\* new TRPCError({code, message, cause}); issues is the issue list of the
\* cause when the cause is a ZodError, and "undefined" otherwise
TRPCError(code, message, issues) ==
    [k |-> "trpc", code |-> code, message |-> message, issues |-> issues]

\* a thrown value that is no TRPCError: an Error, an object, a string,
\* or null/undefined
Thrown(k, code, message) ==
    [k |-> k, code |-> code, message |-> message, issues |-> "undefined"]

\* getErrorFromUnknown: threw is TRUE where the function itself throws,
\* reading .code of null or undefined
getErrorFromUnknownAlwaysInternal(c) ==
    IF c.k = "nullish"
    THEN [threw |-> TRUE,
          error |-> Thrown("error", "none", "Cannot read properties of undefined")]
    ELSE [threw |-> FALSE,
          error |-> TRPCError("INTERNAL_SERVER_ERROR", c.message, "undefined")]

getErrorFromUnknown(c) ==
    IF c.k = "trpc" THEN [threw |-> FALSE, error |-> c]
    ELSE IF c.k = "nullish"
    THEN [threw |-> TRUE,
          error |-> Thrown("error", "none", "Cannot read properties of undefined")]
    ELSE [threw |-> FALSE,
          error |-> TRPCError(
              IF c.code \in TRPC_ERROR_CODES_BY_KEY THEN c.code
              ELSE "INTERNAL_SERVER_ERROR",
              CASE c.k = "error" -> c.message
                [] c.k = "string" -> c.message
                [] OTHER -> "[object Object]",
              "undefined")]

\* getErrorShape with the router's default error formatter: the shape
\* carries the message of the error
getErrorShape(error) == [message |-> error.message]

----------------------------------------------------------------------------
(* The hooks of the options; a status of 0 stands for no status *)

\* opts.responseMeta?.(...): nothing when no hook is configured, else what
\* the configured hook returns
responseMeta(h) ==
    CASE h.responseMeta = "status" -> [status |-> 418, headers |-> {}]
      [] h.responseMeta = "headers" ->
            [status |-> 0,
             headers |-> {<<"x-extra", "1">>, <<"content-type", "text/plain">>}]
      [] OTHER -> [status |-> 0, headers |-> {}]

\* the record onError is called with
OnErrorCall(error, type, path, in, c) ==
    [code |-> error.code, message |-> error.message, type |-> type,
     path |-> path, input |-> in, ctx |-> c]

\* opts.onError?.(...), recorded in the log when a hook is configured
onError(l, h, call) ==
    IF h.onError THEN [l EXCEPT !.onError = Append(@, call)] ELSE l

\* what the call of a configured onError hook may end in
onErrorThrows(h) == h.onError /\ h.throws

\* the Error a hook throws
HookError == Thrown("error", "none", "hook failed")

\* res.setHeader: header names are case-insensitive, held in lower case
SetHeader(headers, key, value) == {p \in headers : p[1] # key} \cup {<<key, value>>}

\* a sendResponse that ends the response without a body
sendResponseNoBody(r, statusCode, headers, body) ==
    [sent |-> r.sent + 1,
     statusCode |-> statusCode,
     headers |-> Spread(SetHeader(r.headers, "content-type", "application/json"),
                        headers),
     body |-> Undefined]

sendResponse(r, statusCode, headers, body) ==
    [sent |-> r.sent + 1,
     statusCode |-> statusCode,
     headers |-> Spread(SetHeader(r.headers, "content-type", "application/json"),
                        headers),
     body |-> JsonStringify(body)]

----------------------------------------------------------------------------
(* The lookup on its own: routers and request paths drawn from pools *)

LookupTemplates ==
    { <<Slash, "users", Slash, ":id">>,
      <<Slash, "users", Slash, "me">>,
      <<Slash, "hello">>,
      <<"hello", Slash>>,
      <<Slash, ":name">>,
      <<Slash, "users", Slash, ":id", Slash, ":name">> }

LookupPaths ==
    { <<Slash, "users", Slash, "me">>,
      <<Slash, "users", Slash, "7">>,
      <<Slash, "Users", Slash, "me">>,
      <<Slash, "hello">>,
      <<Slash, "hello", Slash>>,
      <<Slash, "users">>,
      <<Slash, "users", Slash, "7", Slash, "me">>,
      <<Slash>>,
      <<"hello">> }

LookupProcs ==
    { Proc("p", m, t, IF m = "GET" THEN "query" ELSE "mutation", "object", {}) :
        m \in {"GET", "POST"}, t \in LookupTemplates }
    \cup { [Proc("p", "GET", <<Slash, "users", Slash, ":id">>, "query", "object", {})
               EXCEPT !.enabled = FALSE],
           [Proc("p", "GET", <<Slash, "users", Slash, ":id">>, "query", "object", {})
               EXCEPT !.openapi = FALSE],
           Proc("p", "GET", <<Slash, "users", Slash, ":id">>, "subscription", "object", {}) }

ProcName(i) == CASE i = 1 -> "p1" [] i = 2 -> "p2" [] i = 3 -> "p3" [] OTHER -> "pn"

\* the keys of a procedure record are distinct: the i-th procedure is named pi
LookupRouters ==
    UNION { { [i \in 1..n |-> [ps[i] EXCEPT !.name = ProcName(i)]] :
                ps \in [1..n -> LookupProcs] } : n \in 0..MaxProcs }

LookupInit ==
    /\ router \in LookupRouters
    /\ hooks = NoHooks
    /\ entry = "lookup"
    /\ pc = "lookup"
    /\ event = NoEvent
    /\ req \in { [NoRequest EXCEPT !.method = m, !.url = u] :
                    m \in {"GET", "POST", "HEAD"}, u \in LookupPaths }
    /\ found = NoProcedure
    /\ input = Undefined
    /\ ctx = Undefined
    /\ data = Undefined
    /\ cause = NoCause
    /\ res = NoResponse
    /\ ret = NoReturn
    /\ log = NoLog
    /\ coerced = {}
    /\ seen = NoResponse
    /\ doc = NoDoc
    /\ calls = NoCalls

\* core.ts lines 99-103 on the drawn request
Lookup ==
    /\ pc = "lookup"
    /\ IF UrlParses(req.url)
       THEN /\ found' = getProcedure(router, req.method,
                                     normalizePath(UrlPathname(req.url)))
            /\ pc' = "looked_up"
            /\ cause' = cause
       ELSE /\ found' = found
            /\ pc' = "invalid_url"
            /\ cause' = [k |-> "error", code |-> "none",
                         message |-> "Invalid URL", issues |-> "undefined"]
    /\ log' = [log EXCEPT !.lookups = IF UrlParses(req.url) THEN 1 ELSE 0]
    /\ UNCHANGED <<router, hooks, entry, event, req, input, ctx, data, res,
                   ret, coerced, seen,
                   doc, calls>>

LookupNext == Lookup

SpecLookup == LookupInit /\ [][LookupNext]_vars

----------------------------------------------------------------------------
(* The handlers: one router, the requests drawn from pools *)

MainRouter ==
    << [Proc("getUser", "GET", <<Slash, "users", Slash, ":id">>, "query", "object", {"id"})
            EXCEPT !.shares = 3, !.echo = TRUE],
       Proc("getMe", "GET", <<Slash, "users", Slash, "me">>, "query", "void", {}),
       [Proc("postHello", "POST", <<Slash, "hello">>, "mutation", "object", {"name"})
            EXCEPT !.coercible = TRUE],
       Proc("getHello", "GET", <<Slash, "hello">>, "query", "void", {}),
       Proc("postArray", "POST", <<Slash, "array">>, "mutation", "array", {}),
       Proc("postTagged", "POST", <<Slash, ":name">>, "mutation", "array", {}) >>

Versions == {"none", "2.0", "asdf", "3.0"}
Methods == {"GET", "POST", "HEAD"}
Paths == { <<Slash, "users", Slash, "me">>, <<Slash, "hello">>,
           <<Slash, "array">>, <<Slash, "nope">>, <<"hello">> }
ContentTypes == {"none", "application/json", "application/x-www-form-urlencoded"}
Bodies == {"", "asdfasd", "{name:Aphex}", "[Steve,Mary]"}
Queries == {"none", "name", "id"}

\* event.queryStringParameters || undefined, as createRequest holds it
QueryObject(q) ==
    CASE q = "name" -> {<<"name", "James">>}
      [] q = "id" -> {<<"id", "q">>}
      [] OTHER -> {}

Events ==
    [version : Versions, method : Methods, path : Paths,
     contentType : ContentTypes, body : Bodies, query : Queries]

\* requests given to the node-http handler by a server or a middleware chain
NodeRequests ==
    { [method |-> m, url |-> u, contentType |-> c, parsed |-> FALSE,
       body |-> Undefined, raw |-> b, query |-> QueryObject(q), next |-> n] :
        m \in Methods, u \in Paths, c \in {"none", "application/json"},
        b \in {"", "asdfasd", "{name:Aphex}"}, q \in {"none", "name"},
        n \in BOOLEAN }

\* what createContext may do: return a context, or throw
ContextValues == { Obj({<<"user", "Twin">>}) }
ContextThrows ==
    { TRPCError("UNAUTHORIZED", "no token", "undefined"),
      Thrown("error", "none", "boom"),
      Thrown("object", "FORBIDDEN", "none"),
      Thrown("string", "none", "down"),
      Thrown("nullish", "none", "none") }

\* what the logic of a procedure may do once its input is accepted: return
\* an output, or throw; createCaller turns what it throws into a TRPCError
ProcedureReturns == { Obj({<<"greeting", "Hello">>}) }
ProcedureThrows ==
    { TRPCError("UNAUTHORIZED", "UNAUTHORIZED", "undefined"),
      TRPCError("NOT_FOUND", "no such user", "undefined"),
      TRPCError("BAD_REQUEST", "bad id", "undefined"),
      TRPCError("INTERNAL_SERVER_ERROR", "boom", "undefined") }

\* hooks that return to their caller
HookConfigs ==
    [responseMeta : {"none", "status", "headers"}, onError : BOOLEAN,
     throws : {FALSE}]

\* a configured onError hook that returns, or throws
OnErrorHookConfigs ==
    [responseMeta : {"none", "status", "headers"}, onError : {TRUE},
     throws : BOOLEAN]

InitWith(configs) ==
    /\ router = MainRouter
    /\ hooks \in configs
    /\ entry \in {"lambda", "node"}
    /\ pc = "idle"
    /\ event = NoEvent
    /\ req = NoRequest
    /\ found = NoProcedure
    /\ input = Undefined
    /\ ctx = Undefined
    /\ data = Undefined
    /\ cause = NoCause
    /\ res = NoResponse
    /\ ret = NoReturn
    /\ log = NoLog
    /\ coerced = {}
    /\ seen = NoResponse
    /\ doc = NoDoc
    /\ calls = NoCalls

Init == InitWith(HookConfigs)

\* the handlers constructed with an onError hook of either behaviour
InitHooks == InitWith(OnErrorHookConfigs)

\* where a value thrown out of the node-http handler goes: into the catch
\* of the Lambda handler that awaits it, or out of the program
Escaped == IF entry = "lambda" THEN "l_catch" ELSE "fault"

----------------------------------------------------------------------------
(* What both catch blocks compute *)

\* meta?.status ?? getHTTPStatusCodeFromError(error) ?? 500
ErrorStatusCodeFromTable(meta, error) == getHTTPStatusCodeFromError(error)

ErrorStatusCode(meta, error) ==
    IF meta.status # 0 THEN meta.status ELSE getHTTPStatusCodeFromError(error)

\* meta?.status ?? 200
SuccessStatusCode(meta) == IF meta.status # 0 THEN meta.status ELSE 200

\* core.ts lines 237-240
isInputValidationError(error) ==
    error.code = "BAD_REQUEST" /\ error.issues # "undefined"

\* core.ts lines 244-250: the body of an error response
HandlerErrorBodyRaw(error) ==
    Obj({<<"message", getErrorShape(error).message>>,
         <<"code", error.code>>,
         <<"issues", "undefined">>})

HandlerErrorBody(error) ==
    Obj({<<"message", IF isInputValidationError(error)
                      THEN "Input validation failed"
                      ELSE getErrorShape(error).message>>,
         <<"code", error.code>>,
         <<"issues", IF isInputValidationError(error) THEN error.issues
                     ELSE "undefined">>})

\* aws-lambda.ts lines 146-149
LambdaErrorBody(error) ==
    Obj({<<"message", getErrorShape(error).message>>, <<"code", error.code>>})

\* a throw at a stage of the request: the value is in flight to a catch
Throw(l, stage, value) == [l EXCEPT !.failed = stage, !.thrown = value]

----------------------------------------------------------------------------
(* The Lambda handler: aws-lambda.ts *)

determinePayloadFormat(ev) == IF ev.version = "none" THEN "1.0" ELSE ev.version

\* line 85, negated
SupportedVersionAny(version) == TRUE

SupportedVersion(version) == version = "1.0" \/ version = "2.0"

\* `Unsupported payload format version: ${version}`
UnsupportedVersionMessage(version) ==
    CASE version = "asdf" -> "Unsupported payload format version: asdf"
      [] version = "3.0" -> "Unsupported payload format version: 3.0"
      [] OTHER -> "Unsupported payload format version: ?"

\* the handler is called with an event
LambdaReceive ==
    /\ pc = "idle" /\ entry = "lambda"
    /\ \E ev \in Events : event' = ev
    /\ pc' = "l_version"
    /\ UNCHANGED <<router, hooks, entry, req, found, input, ctx, data, cause,
                   res, ret, log, coerced, seen,
                   doc, calls>>

\* lines 83-98: the version check, then a node-http handler for this event
LambdaVersion ==
    /\ pc = "l_version"
    /\ LET version == determinePayloadFormat(event)
       IN  IF ~SupportedVersion(version)
           THEN /\ cause' = TRPCError("INTERNAL_SERVER_ERROR",
                                      UnsupportedVersionMessage(version), "undefined")
                /\ log' = Throw(log, "version", cause')
                /\ pc' = "l_catch"
           ELSE /\ pc' = "l_request"
                /\ UNCHANGED <<cause, log>>
    /\ UNCHANGED <<router, hooks, entry, event, req, found, input, ctx, data,
                   res, ret, coerced, seen,
                   doc, calls>>

\* createMockNodeHTTPRequest, lines 28-68: the body is parsed here
createMockNodeHTTPRequestLenient(ev) ==
    [decodes |-> FALSE, ok |-> TRUE,
     request |-> [method |-> ev.method, url |-> ev.path,
                  contentType |-> ev.contentType, parsed |-> TRUE,
                  body |-> IF ev.contentType = "application/json"
                              /\ JsonParse(ev.body).ok
                           THEN JsonParse(ev.body).value ELSE Undefined,
                  raw |-> ev.body, query |-> QueryObject(ev.query),
                  next |-> FALSE]]

createMockNodeHTTPRequest(ev) ==
    LET parse == IF ev.contentType = "application/json" THEN JsonParse(ev.body)
                 ELSE [ok |-> TRUE, value |-> QsParse(ev.body)]
        decodes == ev.contentType \in {"application/json",
                                       "application/x-www-form-urlencoded"}
                   /\ ev.body # ""
    IN  [decodes |-> decodes,
         ok |-> ~decodes \/ parse.ok,
         request |-> [method |-> ev.method,
                      url |-> ev.path,
                      contentType |-> ev.contentType,
                      parsed |-> TRUE,
                      body |-> IF decodes /\ parse.ok THEN parse.value ELSE Undefined,
                      raw |-> ev.body,
                      query |-> QueryObject(ev.query),
                      next |-> FALSE]]

\* lines 101-104
LambdaCreateRequest ==
    /\ pc = "l_request"
    /\ LET made == createMockNodeHTTPRequest(event)
           decoded == [log EXCEPT !.decoded = IF made.decodes THEN @ + 1 ELSE @]
       IN  IF made.ok
           THEN /\ req' = made.request
                /\ log' = decoded
                /\ pc' = "h_match"
                /\ cause' = cause
           ELSE /\ req' = req
                /\ pc' = "l_catch"
                /\ cause' = TRPCError("PARSE_ERROR", "Failed to parse request body",
                                      "undefined")
                /\ log' = Throw(decoded, "request", cause')
    /\ UNCHANGED <<router, hooks, entry, event, found, input, ctx, data, res,
                   ret, coerced, seen,
                   doc, calls>>

\* lines 108-112: the node-http handler returned, the response is handed back
LambdaReturn ==
    /\ pc = "h_returned" /\ entry = "lambda"
    /\ ret' = [returned |-> TRUE, statusCode |-> res.statusCode,
               headers |-> res.headers, body |-> res.body]
    /\ pc' = "done"
    /\ UNCHANGED <<router, hooks, entry, event, req, found, input, ctx, data,
                   cause, res, log, coerced, seen,
                   doc, calls>>

\* lines 113-156: the catch of the Lambda handler
LambdaCatch ==
    /\ pc = "l_catch"
    /\ LET conv == getErrorFromUnknown(cause)
           error == conv.error
           meta == responseMeta(hooks)
           statusCode == ErrorStatusCode(meta, error)
           headers == Spread({<<"content-type", "application/json">>}, meta.headers)
           body == LambdaErrorBody(error)
           \* `let path` is assigned on line 101, after the version check
           path == IF log.failed = "version" THEN <<>> ELSE event.path
       IN  IF conv.threw
           THEN /\ cause' = conv.error
                /\ pc' = "fault"
                /\ UNCHANGED <<ret, log>>
           ELSE IF onErrorThrows(hooks)
           THEN /\ log' = onError(log, hooks,
                               OnErrorCall(error, "unknown", path,
                                           Undefined, Undefined))
                /\ cause' = HookError
                /\ pc' = "fault"
                /\ ret' = ret
           ELSE /\ log' = [onError(log, hooks,
                               OnErrorCall(error, "unknown", path,
                                           Undefined, Undefined))
                             EXCEPT !.metaCalls = IF hooks.responseMeta = "none"
                                                  THEN @ ELSE @ + 1,
                                    !.caught = Append(@, "lambda")]
                /\ ret' = [returned |-> TRUE, statusCode |-> statusCode,
                           headers |-> headers, body |-> JsonStringify(body)]
                /\ cause' = error
                /\ pc' = "done"
    /\ UNCHANGED <<router, hooks, entry, event, req, found, input, ctx, data,
                   res, coerced, seen,
                   doc, calls>>

----------------------------------------------------------------------------
(* The node-http handler: core.ts *)

\* every method taken to carry a body
acceptsRequestBodyAlways(method) == TRUE

\* utils/method: GET and HEAD carry no body
acceptsRequestBody(method) == method \notin {"GET", "HEAD"}

\* adapters/node-http/input getBody: a body the request already carries is
\* returned as it is; otherwise the raw body is decoded by its content type
getBody(r) ==
    IF r.parsed THEN [decodes |-> FALSE, ok |-> TRUE, value |-> r.body]
    ELSE IF r.raw = "" \/ r.contentType = "none"
    THEN [decodes |-> FALSE, ok |-> TRUE, value |-> Undefined]
    ELSE IF r.contentType = "application/json"
    THEN [decodes |-> TRUE, ok |-> JsonParse(r.raw).ok, value |-> JsonParse(r.raw).value]
    ELSE [decodes |-> TRUE, ok |-> TRUE, value |-> QsParse(r.raw)]

\* adapters/node-http/input getQuery
getQuery(r) == Obj(r.query)

\* the node-http handler is called with a request of its own
NodeReceive ==
    /\ pc = "idle" /\ entry = "node"
    /\ \E r \in NodeRequests : req' = r
    /\ pc' = "h_match"
    /\ UNCHANGED <<router, hooks, entry, event, found, input, ctx, data, cause,
                   res, ret, log, coerced, seen,
                   doc, calls>>

\* lines 99-103, before the try block
HandlerMatch ==
    /\ pc = "h_match"
    /\ IF UrlParses(req.url)
       THEN /\ found' = getProcedure(router, req.method,
                                     normalizePath(UrlPathname(req.url)))
            /\ log' = [log EXCEPT !.lookups = @ + 1]
            /\ pc' = "h_try"
            /\ cause' = cause
       ELSE /\ found' = found
            /\ pc' = Escaped
            /\ cause' = Thrown("error", "none", "Invalid URL")
            /\ log' = Throw(log, "url", cause')
    /\ UNCHANGED <<router, hooks, entry, event, req, input, ctx, data, res,
                   ret, coerced, seen,
                   doc, calls>>

\* lines 110-123: what is done when the lookup found nothing
NoProcedureOutcomeNoHead(r) == IF r.next THEN "next" ELSE "NOT_FOUND"

NoProcedureOutcome(r) ==
    IF r.next THEN "next"
    ELSE IF r.method = "HEAD" THEN "204"
    ELSE "NOT_FOUND"

\* lines 110-124: no procedure
HandlerNoProcedure ==
    /\ pc = "h_try" /\ ~found.ok
    /\ LET outcome == NoProcedureOutcome(req)
       IN  CASE outcome = "next" ->
                 /\ log' = [log EXCEPT !.next = @ + 1]
                 /\ pc' = "h_returned"
                 /\ UNCHANGED <<res, cause>>
             [] outcome = "204" ->
                 /\ res' = sendResponse(res, 204, {}, Undefined)
                 /\ pc' = "h_returned"
                 /\ UNCHANGED <<log, cause>>
             [] OTHER ->
                 /\ cause' = TRPCError("NOT_FOUND", "Not found", "undefined")
                 /\ log' = Throw(log, "match", cause')
                 /\ pc' = "h_catch"
                 /\ res' = res
    /\ UNCHANGED <<router, hooks, entry, event, req, found, input, ctx, data,
                   ret, coerced, seen,
                   doc, calls>>

\* an array input that takes whatever was decoded, merged as an object is
reconcileInputMerging(shape, bodyOrQuery, pathInput) ==
    [ok |-> TRUE, value |-> Obj(Spread(SpreadFields(bodyOrQuery), pathInput))]

\* lines 133-148: an array is taken as it is and anything else is refused
\* for an array schema; for every other schema the fields are merged
reconcileInput(shape, bodyOrQuery, pathInput) ==
    IF shape = "array"
    THEN [ok |-> bodyOrQuery.kind = "array", value |-> bodyOrQuery]
    ELSE [ok |-> TRUE, value |-> Obj(Spread(SpreadFields(bodyOrQuery), pathInput))]

\* lines 126-149: the input of the procedure
HandlerInput ==
    /\ pc = "h_try" /\ found.ok
    /\ LET procedure == router[found.procedure]
           useBody == acceptsRequestBody(req.method)
           got == IF useBody THEN getBody(req)
                  ELSE [decodes |-> FALSE, ok |-> TRUE, value |-> getQuery(req)]
           bodyOrQuery == got.value
           decoded == [log EXCEPT !.decoded = IF got.decodes THEN @ + 1 ELSE @]
       IN  IF procedure.shape = "void"
           THEN /\ pc' = "h_coerce"
                /\ UNCHANGED <<input, cause, log>>
           ELSE IF ~got.ok
           THEN /\ cause' = TRPCError("PARSE_ERROR",
                                      "Failed to parse request body", "undefined")
                /\ log' = Throw(decoded, "decode", cause')
                /\ pc' = "h_catch"
                /\ input' = input
           ELSE IF ~reconcileInput(procedure.shape, bodyOrQuery, found.pathInput).ok
           THEN /\ cause' = TRPCError("BAD_REQUEST",
                                      "Expected array in request body", "undefined")
                /\ log' = Throw(decoded, "reconcile", cause')
                /\ pc' = "h_catch"
                /\ input' = input
           ELSE /\ input' = reconcileInput(procedure.shape, bodyOrQuery,
                                           found.pathInput).value
                /\ log' = decoded
                /\ pc' = "h_coerce"
                /\ cause' = cause
    /\ UNCHANGED <<router, hooks, entry, event, req, found, ctx, data, res,
                   ret, coerced, seen,
                   doc, calls>>

\* lines 151-168: the coercion flags are set on the input schema of the
\* procedure.  The schema hangs off the procedure, a function, which
\* cloneDeep (line 73) hands over by reference: the flags outlive the
\* request and the handler.
HandlerCoerce ==
    /\ pc = "h_coerce"
    /\ coerced' = IF /\ router[found.procedure].shape \in {"object", "array"}
                     /\ router[found.procedure].coercible
                  THEN coerced \cup {found.procedure} ELSE coerced
    /\ pc' = "h_context"
    /\ UNCHANGED <<router, hooks, entry, event, req, found, input, ctx, data,
                   cause, res, ret, log, seen,
                   doc, calls>>

\* a variant that goes on to the procedure when createContext throws
HandlerCreateContextLenient ==
    /\ pc = "h_context"
    /\ \/ \E c \in ContextValues :
            /\ ctx' = c
            /\ log' = [log EXCEPT !.ctxCalls = @ + 1]
       \/ \E t \in ContextThrows :
            /\ ctx' = ctx
            /\ log' = Throw([log EXCEPT !.ctxCalls = @ + 1], "context", t)
    /\ pc' = "h_invoke"
    /\ UNCHANGED <<router, hooks, entry, event, req, found, input, data, res,
                   ret, cause, coerced, seen, doc, calls>>

\* lines 170-174: createContext returns or throws
HandlerCreateContext ==
    /\ pc = "h_context"
    /\ \/ \E c \in ContextValues :
            /\ ctx' = c
            /\ pc' = "h_invoke"
            /\ cause' = cause
            /\ log' = [log EXCEPT !.ctxCalls = @ + 1]
       \/ \E t \in ContextThrows :
            /\ cause' = t
            /\ pc' = "h_catch"
            /\ ctx' = ctx
            /\ log' = Throw([log EXCEPT !.ctxCalls = @ + 1], "context", t)
    /\ UNCHANGED <<router, hooks, entry, event, req, found, input, data, res,
                   ret, coerced, seen,
                   doc, calls>>

\* the input parser of the procedure, run by the caller before the logic
InputAccepted(procedure, in) ==
    CASE procedure.shape = "object" ->
            in.kind = "object" /\ procedure.required \subseteq Keys(in.fields)
      [] procedure.shape = "array" -> in.kind = "array"
      [] OTHER -> TRUE

\* what the input parser hands to the logic: a schema whose coerce flag is
\* set converts what it is given (a boolean schema turns any non-empty
\* string into true), so a union that holds a flagged schema takes the
\* converted value where it took the string before
parseInput(procedure, in, flags) ==
    IF procedure.shares \in flags /\ in.kind = "object"
    THEN Obj({<<p[1], "true">> : p \in in.fields})
    ELSE in

\* lines 176-187: the procedure is called through the caller of the router;
\* the caller is a proxy, so the `!procedureFn` branch is never taken
HandlerInvoke ==
    /\ pc = "h_invoke"
    /\ LET called == [log EXCEPT !.invoked = @ + 1, !.invokedWith = input,
                                 !.invokedCtx = ctx]
       IN  IF ~InputAccepted(router[found.procedure], input)
           THEN /\ cause' = TRPCError("BAD_REQUEST", "zod: Required",
                                      "issues: Required")
                /\ log' = Throw(called, "validate", cause')
                /\ pc' = "h_catch"
                /\ data' = data
           ELSE \/ \E v \in IF router[found.procedure].echo
                              THEN {parseInput(router[found.procedure], input,
                                               coerced)}
                              ELSE ProcedureReturns :
                     /\ data' = v
                     /\ pc' = "h_success"
                     /\ cause' = cause
                     /\ log' = called
                \/ \E t \in ProcedureThrows :
                     /\ cause' = t
                     /\ pc' = "h_catch"
                     /\ data' = data
                     /\ log' = Throw(called, "logic", t)
    /\ UNCHANGED <<router, hooks, entry, event, req, found, input, ctx, res,
                   ret, coerced, seen,
                   doc, calls>>

\* lines 189-202
HandlerSuccess ==
    /\ pc = "h_success"
    /\ LET meta == responseMeta(hooks)
       IN  /\ res' = sendResponse(res, SuccessStatusCode(meta), meta.headers, data)
           /\ log' = [log EXCEPT !.metaCalls = IF hooks.responseMeta = "none"
                                               THEN @ ELSE @ + 1]
    /\ pc' = "h_returned"
    /\ UNCHANGED <<router, hooks, entry, event, req, found, input, ctx, data,
                   cause, ret, coerced, seen,
                   doc, calls>>

\* lines 203-252: the catch of the node-http handler
HandlerCatch ==
    /\ pc = "h_catch"
    /\ LET conv == getErrorFromUnknown(cause)
           error == conv.error
           meta == responseMeta(hooks)
       IN  IF conv.threw
           THEN /\ cause' = conv.error
                /\ pc' = Escaped
                /\ UNCHANGED <<res, log>>
           ELSE IF onErrorThrows(hooks)
           THEN /\ log' = onError(log, hooks,
                               OnErrorCall(error, found.type,
                                   IF found.ok THEN <<found.path>> ELSE <<>>,
                                   input, ctx))
                /\ cause' = HookError
                /\ pc' = Escaped
                /\ res' = res
           ELSE /\ log' = [onError(log, hooks,
                               OnErrorCall(error, found.type,
                                   IF found.ok THEN <<found.path>> ELSE <<>>,
                                   input, ctx))
                             EXCEPT !.metaCalls = IF hooks.responseMeta = "none"
                                                  THEN @ ELSE @ + 1,
                                    !.caught = Append(@, "core")]
                /\ res' = sendResponse(res, ErrorStatusCode(meta, error),
                                       meta.headers, HandlerErrorBody(error))
                /\ cause' = error
                /\ pc' = "h_returned"
    /\ UNCHANGED <<router, hooks, entry, event, req, found, input, ctx, data,
                   ret, coerced, seen,
                   doc, calls>>

\* the promise of the node-http handler resolves for its own caller
NodeReturn ==
    /\ pc = "h_returned" /\ entry = "node"
    /\ pc' = "done"
    /\ UNCHANGED <<router, hooks, entry, event, req, found, input, ctx, data,
                   cause, res, ret, log, coerced, seen,
                   doc, calls>>

\* the request that is repeated: GET /users/me with no body and no query
IsProbe ==
    IF entry = "lambda"
    THEN event = [version |-> "none", method |-> "GET",
                  path |-> <<Slash, "users", Slash, "me">>,
                  contentType |-> "none", body |-> "", query |-> "none"]
    ELSE /\ req.method = "GET" /\ req.url = <<Slash, "users", Slash, "me">>
         /\ req.contentType = "none" /\ req.raw = "" /\ req.query = {}
         /\ ~req.next

\* what the caller of the handler got
Answer ==
    IF entry = "lambda"
    THEN [sent |-> 1, statusCode |-> ret.statusCode, headers |-> ret.headers,
          body |-> ret.body]
    ELSE res

\* the handler is ready for its next request; what the finished request
\* held is dropped, and the first answer to the probe is kept
Finish ==
    /\ pc \in {"done", "fault"}
    /\ pc' = "idle"
    /\ event' = NoEvent /\ req' = NoRequest /\ found' = NoProcedure
    /\ input' = Undefined /\ ctx' = Undefined /\ data' = Undefined
    /\ cause' = NoCause /\ res' = NoResponse /\ ret' = NoReturn /\ log' = NoLog
    /\ seen' = IF seen = NoResponse /\ pc = "done" /\ IsProbe
                    /\ log.failed = "none" /\ log.invoked = 1
                 THEN Answer
                 ELSE seen
    /\ UNCHANGED <<router, hooks, entry, coerced, doc, calls>>

Next ==
    \/ LambdaReceive
    \/ LambdaVersion
    \/ LambdaCreateRequest
    \/ LambdaReturn
    \/ LambdaCatch
    \/ NodeReceive
    \/ HandlerMatch
    \/ HandlerNoProcedure
    \/ HandlerInput
    \/ HandlerCoerce
    \/ HandlerCreateContext
    \/ HandlerInvoke
    \/ HandlerSuccess
    \/ HandlerCatch
    \/ NodeReturn
    \/ Finish

Spec == Init /\ [][Next]_vars

SpecHooks == InitHooks /\ [][Next]_vars

----------------------------------------------------------------------------
(* Vocabulary of the claims about routing *)

\* the segments of a path: what lies between its slashes
Segments(p) == SelectSeq(p, LAMBDA t : t # Slash)

\* a procedure the index holds
Registered(p) == p.openapi /\ p.enabled /\ p.type \in {"query", "mutation"}

\* template segments T against path segments P, as section 4.1 words it
SegMatch(T, P) ==
    /\ Len(T) = Len(P)
    /\ \A i \in 1..Len(T) : T[i] \notin ParamSegs => T[i] = P[i]

SegParams(T, P) ==
    {<<ParamName(T[i]), P[i]>> : i \in {j \in 1..Len(T) : T[j] \in ParamSegs}}

\* the method and the path the caller asked for
TheMethod == IF entry = "lambda" THEN event.method ELSE req.method
TheUrl == IF entry = "lambda" THEN event.path ELSE req.url

\* the registered procedures of the request's method whose template matches
Matching ==
    {i \in 1..Len(router) :
        /\ Registered(router[i])
        /\ router[i].method = TheMethod
        /\ SegMatch(Segments(router[i].path), Segments(TheUrl))}

\* C9: when several procedures registered under the request's method match
\* the path, lookup returns the one registered first, whatever the
\* specificity of the patterns, with the path parameters that its pattern
\* extracts.
C9_FirstMatchWins ==
    (pc = "looked_up" /\ Cardinality(Matching) >= 2) =>
        /\ found.ok
        /\ found.procedure \in Matching
        /\ \A j \in Matching : found.procedure <= j
        /\ found.path = router[found.procedure].name
        /\ found.pathInput =
              SegParams(Segments(router[found.procedure].path), Segments(req.url))

\* /users/:id registered before /users/me: GET /users/me goes to /users/:id
C9_Witness ==
    /\ pc = "looked_up"
    /\ Len(router) = 2
    /\ router[1].path = <<Slash, "users", Slash, ":id">>
    /\ router[2].path = <<Slash, "users", Slash, "me">>
    /\ req.url = <<Slash, "users", Slash, "me">>
    /\ Matching = {1, 2}
    /\ found.ok /\ found.procedure = 1
    /\ found.pathInput = {<<"id", "me">>}

----------------------------------------------------------------------------
(* Vocabulary of the claims about responses *)

\* what the caller of the handler receives
Responded == IF entry = "lambda" THEN ret.returned ELSE res.sent = 1

Envelope ==
    IF entry = "lambda"
    THEN [statusCode |-> ret.statusCode, headers |-> ret.headers, body |-> ret.body]
    ELSE [statusCode |-> res.statusCode, headers |-> res.headers, body |-> res.body]

\* the status and the headers the configured responseMeta hook returns
HookStatus == IF hooks.responseMeta = "status" THEN 418 ELSE 0
HookHeaders ==
    IF hooks.responseMeta = "headers"
    THEN {<<"x-extra", "1">>, <<"content-type", "text/plain">>}
    ELSE {}

StatusOr(default) == IF HookStatus # 0 THEN HookStatus ELSE default

SupportedEvent == entry = "lambda" => event.version \in {"none", "1.0", "2.0"}

NothingRouted ==
    /\ log.lookups = 0 /\ log.decoded = 0 /\ log.ctxCalls = 0 /\ log.invoked = 0
    /\ found = NoProcedure

----------------------------------------------------------------------------
(* C1 *)

BadVersion == entry = "lambda" /\ event.version \notin {"none", "1.0", "2.0"}

C1_Body ==
    Obj({<<"message", UnsupportedVersionMessage(event.version)>>,
         <<"code", "INTERNAL_SERVER_ERROR">>})

\* C1 as written: an event of an unsupported version is answered with
\* status 500 and the Unsupported-version body, and nothing is routed.
C1_UnsupportedVersionIs500 ==
    (BadVersion /\ pc = "done") =>
        /\ ret.returned
        /\ ret.statusCode = 500
        /\ ret.body = C1_Body
        /\ NothingRouted

\* C1, amended: an event of an unsupported version is answered with the
\* Unsupported-version body and code INTERNAL_SERVER_ERROR, with status 500
\* unless the responseMeta hook returns a status; at no point of its
\* handling is a procedure looked up, a body decoded, a context created or a
\* procedure invoked; an event without a version is not refused.
C1_UnsupportedVersionFailsFirst ==
    /\ (BadVersion /\ pc = "done") =>
          /\ ret.returned
          /\ ret.statusCode = StatusOr(500)
          /\ ret.body = C1_Body
          /\ log.failed = "version"
    /\ BadVersion => (NothingRouted /\ pc \in {"l_version", "l_catch", "done"})
    /\ (entry = "lambda" /\ event.version = "none") => log.failed # "version"

\* the event {version: 'asdf'} of the test 'with bad event'
C1_Witness ==
    /\ BadVersion /\ pc = "done"
    /\ event.version = "asdf"
    /\ ret.statusCode = 500
    /\ ret.body = Obj({<<"message", "Unsupported payload format version: asdf">>,
                       <<"code", "INTERNAL_SERVER_ERROR">>})

----------------------------------------------------------------------------
(* C2 *)

MalformedJson ==
    /\ entry = "lambda"
    /\ event.version \in {"none", "1.0", "2.0"}
    /\ event.contentType = "application/json"
    /\ event.body # ""
    /\ ~JsonParse(event.body).ok

C2_Body ==
    Obj({<<"message", "Failed to parse request body">>, <<"code", "PARSE_ERROR">>})

\* C2 as written: a JSON request whose body does not parse is answered
\* with status 400 and the PARSE_ERROR body, and no procedure is invoked.
C2_MalformedJsonIs400 ==
    (MalformedJson /\ pc = "done") =>
        /\ ret.statusCode = 400
        /\ ret.body = C2_Body
        /\ log.invoked = 0

\* C2, amended: a Lambda event of a supported version with content-type
\* application/json and a non-empty body that is not valid JSON is answered
\* with exactly {message, code} of PARSE_ERROR, with status 400 unless the
\* responseMeta hook returns a status, and no procedure is ever invoked for it.
C2_MalformedJsonIsParseError ==
    /\ (MalformedJson /\ pc = "done") =>
          /\ ret.returned
          /\ ret.statusCode = StatusOr(400)
          /\ ret.body = C2_Body
    /\ MalformedJson => (log.invoked = 0 /\ log.ctxCalls = 0)

\* the event of the test 'with invalid body'
C2_Witness ==
    /\ MalformedJson /\ pc = "done"
    /\ event.method = "POST" /\ event.path = <<Slash, "hello">>
    /\ event.body = "asdfasd"
    /\ ret.statusCode = 400
    /\ ret.body = C2_Body

----------------------------------------------------------------------------
(* C3 *)

ValidationFailed == pc = "done" /\ log.failed = "validate"

C3_Body ==
    Obj({<<"message", "Input validation failed">>, <<"code", "BAD_REQUEST">>,
         <<"issues", "issues: Required">>})

OtherFailure == pc = "done" /\ log.failed \notin {"none", "validate"}

\* C3 as written: a validator rejection is answered with status 400 and
\* the Input-validation-failed body with the issues; every other failure
\* carries the message of the error and no issues.
C3_ValidationIs400 ==
    /\ ValidationFailed =>
          (Envelope.statusCode = 400 /\ Envelope.body = C3_Body)
    /\ OtherFailure =>
          /\ <<"message", cause.message>> \in Envelope.body.fields
          /\ "issues" \notin Keys(Envelope.body.fields)

\* C3, amended: a validator rejection is answered with the
\* Input-validation-failed body with the issues of the validator, with
\* status 400 unless the responseMeta hook returns a status; every other
\* failure carries the message of the error and no issues.
C3_ValidationBody ==
    /\ ValidationFailed =>
          /\ Responded
          /\ Envelope.statusCode = StatusOr(400)
          /\ Envelope.body = C3_Body
    /\ OtherFailure =>
          /\ Responded
          /\ <<"message", cause.message>> \in Envelope.body.fields
          /\ <<"code", cause.code>> \in Envelope.body.fields
          /\ "issues" \notin Keys(Envelope.body.fields)
    /\ (pc = "done" /\ log.failed = "match") =>
          <<"message", "Not found">> \in Envelope.body.fields

\* POST /hello without the required name, as in the test 'with bad input'
C3_Witness ==
    /\ ValidationFailed
    /\ TheMethod = "POST" /\ found.path = "postHello"
    /\ Envelope.statusCode = 400
    /\ Envelope.body = C3_Body

----------------------------------------------------------------------------
(* C4 *)

LogicFailed == pc = "done" /\ log.failed = "logic"

\* the fixed table, for the codes procedures raise in the model
TableStatus(code) ==
    CASE code = "UNAUTHORIZED" -> 401
      [] code = "NOT_FOUND" -> 404
      [] code = "BAD_REQUEST" -> 400
      [] code = "INTERNAL_SERVER_ERROR" -> 500
      [] OTHER -> 0

----------------------------------------------------------------------------
(* C5 *)

Succeeded == pc = "done" /\ log.failed = "none" /\ log.invoked = 1

\* C5 as written: the output of the procedure is the body, the
\* content-type is application/json, the status is 200 unless responseMeta
\* returns one, and the headers of responseMeta are in the response.
C5_SuccessIsJson ==
    Succeeded =>
        /\ Envelope.body = data
        /\ <<"content-type", "application/json">> \in Envelope.headers
        /\ Envelope.statusCode = StatusOr(200)
        /\ HookHeaders \subseteq Envelope.headers

\* C5, amended: as written, but the content-type is application/json only
\* when responseMeta returns no content-type header of its own; a
\* content-type it returns replaces it.
C5_SuccessEnvelope ==
    Succeeded =>
        /\ Responded
        /\ Envelope.body = data
        /\ Envelope.statusCode = StatusOr(200)
        /\ HookHeaders \subseteq Envelope.headers
        /\ Keys(Envelope.headers) = {"content-type"} \cup Keys(HookHeaders)
        /\ "content-type" \notin Keys(HookHeaders) =>
              <<"content-type", "application/json">> \in Envelope.headers

\* a success under a responseMeta hook that returns a status only
C5_Witness ==
    /\ Succeeded
    /\ hooks.responseMeta = "status"
    /\ Envelope.statusCode = 418
    /\ Envelope.headers = {<<"content-type", "application/json">>}
    /\ Envelope.body = Obj({<<"greeting", "Hello">>})

----------------------------------------------------------------------------
(* C6 *)

\* C6: no request ends as an unhandled fault, and every request that is
\* not handed to the next middleware ends with one response that has a
\* status code.
C6_AlwaysOneEnvelope ==
    /\ pc # "fault"
    /\ (pc = "done" /\ log.next = 0) =>
          (Responded /\ res.sent <= 1 /\ Envelope.statusCode # 0)

----------------------------------------------------------------------------
(* C7 *)

\* C7, with no responseMeta hook and no next middleware: a request of a
\* supported event whose method is not HEAD and whose method and path match
\* no registered procedure ends with status 404 and code NOT_FOUND, and no
\* body was decoded, no context created and no procedure invoked for it.
C7_UnmatchedIsNotFound ==
    (/\ pc = "done"
     /\ SupportedEvent
     /\ hooks.responseMeta = "none"
     /\ log.next = 0 /\ ~req.next
     /\ TheMethod # "HEAD"
     /\ Matching = {}) =>
        /\ Envelope.statusCode = 404
        /\ <<"code", "NOT_FOUND">> \in Envelope.body.fields
        /\ log.decoded = 0
        /\ log.ctxCalls = 0
        /\ log.invoked = 0

----------------------------------------------------------------------------
(* C8 *)

HeadUnmatched ==
    pc = "done" /\ log.lookups = 1 /\ ~found.ok /\ req.method = "HEAD"

\* C8 as written: a HEAD request for which the lookup finds no procedure
\* is answered 204 with an empty body; no error is raised and onError is
\* not called.
C8_HeadIs204 ==
    HeadUnmatched =>
        /\ Responded
        /\ Envelope.statusCode = 204
        /\ Envelope.body = Undefined
        /\ log.failed = "none"
        /\ log.caught = <<>>
        /\ log.onError = <<>>

\* C8, amended: a HEAD request given to the handler without a next
\* callback, for which the lookup finds no procedure, is answered 204 with
\* an empty body; no error is raised and onError is not called. With a next
\* callback the handler calls it once and sends nothing.
C8_HeadWithoutNextIs204 ==
    /\ (HeadUnmatched /\ ~req.next) =>
          /\ Responded
          /\ res.sent = 1
          /\ Envelope.statusCode = 204
          /\ Envelope.body = Undefined
          /\ log.failed = "none"
          /\ log.caught = <<>>
          /\ log.onError = <<>>
          /\ log.next = 0
    /\ (HeadUnmatched /\ req.next) =>
          /\ res.sent = 0
          /\ log.next = 1
          /\ log.onError = <<>>

\* HEAD /nope under a configured onError hook
C8_Witness ==
    /\ HeadUnmatched /\ ~req.next
    /\ hooks.onError
    /\ req.url = <<Slash, "nope">>
    /\ Envelope.statusCode = 204
    /\ Envelope.body = Undefined

----------------------------------------------------------------------------
(* C11 *)

\* C11: leading and trailing slashes make no difference: whatever slashes
\* the declared paths and the request path begin and end with, the lookup
\* is made, and it finds the first registered procedure whose segments
\* match the segments of the request path, with the parameters at their
\* places, and finds nothing when there is none.
C11_SlashesIgnored ==
    pc # "lookup" =>
        /\ pc = "looked_up"
        /\ found.ok <=> Matching # {}
        /\ found.ok =>
              /\ found.procedure \in Matching
              /\ \A j \in Matching : found.procedure <= j
              /\ found.pathInput =
                    SegParams(Segments(router[found.procedure].path),
                              Segments(req.url))

----------------------------------------------------------------------------
(* Vocabulary of the claims about the input *)

\* the matched procedure and the shape of its input
Matched == found.ok /\ pc \notin {"idle", "h_match"}
Shape == router[found.procedure].shape

\* the input has been reconciled and no later stage has failed yet
Reconciled == Matched /\ pc \in {"h_coerce", "h_context", "h_invoke"}

\* what the caller supplied: the decoded body and the query parameters
SuppliedBody ==
    IF req.parsed THEN req.body
    ELSE IF req.contentType = "application/json" /\ req.raw # ""
    THEN JsonParse(req.raw).value
    ELSE Undefined
SuppliedQuery == Obj(req.query)

CarriesBody == TheMethod \in {"POST", "PUT", "PATCH", "DELETE"}

\* the path parameters of the request under the matched template
PathParams ==
    SegParams(Segments(router[found.procedure].path), Segments(req.url))

----------------------------------------------------------------------------
(* C12 *)

\* the merge of C12 of the supplied fields f with the path parameters
MergedWith(v, f) ==
    /\ v.kind = "object"
    /\ Keys(v.fields) = Keys(f) \cup Keys(PathParams)
    /\ \A p \in v.fields :
          IF p[1] \in Keys(PathParams) THEN p \in PathParams ELSE p \in f
    /\ PathParams = {} => v.fields = f

\* C12: for an object-shaped input the reconciled input, and what the
\* procedure is invoked with, is the shallow merge of the body-or-query
\* fields with the path parameters, a path parameter winning a collision;
\* with no path parameters it is the body-or-query fields unchanged.
C12_PathParametersWin ==
    LET f == SpreadFields(IF CarriesBody THEN SuppliedBody ELSE SuppliedQuery)
    IN  /\ (Reconciled /\ Shape = "object") => MergedWith(input, f)
        /\ (Matched /\ Shape = "object" /\ log.invoked = 1) =>
              MergedWith(log.invokedWith, f)

\* query {id: 'q'} against /users/:id asked for as /users/me: the
\* procedure is invoked with {id: 'me'}
C12_Witness ==
    /\ Matched /\ Shape = "object" /\ log.invoked = 1
    /\ TheMethod = "GET"
    /\ req.query = {<<"id", "q">>}
    /\ PathParams = {<<"id", "me">>}
    /\ log.invokedWith = Obj({<<"id", "me">>})

----------------------------------------------------------------------------
(* C13 *)

\* what an array-shaped procedure is given to reconcile
SuppliedValue == IF CarriesBody THEN SuppliedBody ELSE SuppliedQuery

NotAnArray ==
    /\ Matched /\ Shape = "array" /\ pc = "done"
    /\ log.failed # "decode"
    /\ SuppliedValue.kind # "array"

C13_Body ==
    Obj({<<"message", "Expected array in request body">>,
         <<"code", "BAD_REQUEST">>})

\* C13 as written: an array-shaped procedure is given the decoded array
\* unchanged, and a value that is no array is answered with status 400 and
\* the Expected-array body, the procedure not being invoked.
C13_ArrayOr400 ==
    /\ (Reconciled /\ Shape = "array") => input = SuppliedValue
    /\ NotAnArray =>
          /\ Envelope.statusCode = 400
          /\ Envelope.body = C13_Body
          /\ log.invoked = 0

\* C13, amended: an array-shaped procedure is reconciled to, and invoked
\* with, the decoded array unchanged, no path parameter being merged into
\* it; a decoded value that is no array is answered with the
\* Expected-array body, with status 400 unless the responseMeta hook
\* returns a status, and the procedure is not invoked.
C13_ArrayUnchanged ==
    /\ (Reconciled /\ Shape = "array") =>
          (input = SuppliedValue /\ input.kind = "array" /\ input.fields = {})
    /\ (Matched /\ Shape = "array" /\ log.invoked = 1) =>
          (log.invokedWith = SuppliedValue /\ log.invokedWith.kind = "array")
    /\ NotAnArray =>
          /\ Responded
          /\ Envelope.statusCode = StatusOr(400)
          /\ Envelope.body = C13_Body
          /\ log.failed = "reconcile"
          /\ log.invoked = 0
          /\ log.ctxCalls = 0

\* the body {name: 'Aphex'} given to the array procedure at /:name
C13_Witness ==
    /\ NotAnArray
    /\ found.path = "postTagged"
    /\ PathParams = {<<"name", "nope">>}
    /\ SuppliedValue = Obj({<<"name", "Aphex">>})
    /\ Envelope.statusCode = 400
    /\ Envelope.body = C13_Body

----------------------------------------------------------------------------
(* C14 *)

\* the procedure the request is for: the first registered one that matches
Target == CHOOSE i \in Matching : \A j \in Matching : i <= j

ForVoid ==
    /\ SupportedEvent
    /\ Matching # {}
    /\ router[Target].shape = "void"

\* C14: for a request to a procedure whose input is void nothing of the
\* body or the query is decoded or validated at any point, so no failure
\* of decoding, reconciling or validating ends the request, and when the
\* procedure is invoked it is invoked with no input.
C14_VoidNeverDecodes ==
    (ForVoid /\ pc # "idle") =>
        /\ log.decoded = 0
        /\ log.failed \notin {"request", "decode", "reconcile", "validate"}
        /\ log.invoked = 1 => log.invokedWith = Undefined

----------------------------------------------------------------------------
(* C15 *)

\* C15: for a matched procedure with an input the source of the input is
\* decided by the method: under GET and HEAD the input is made of the query
\* parameters and nothing of the body, under POST, PUT, PATCH and DELETE of
\* the decoded body and nothing of the query.
C15_SourceByMethod ==
    /\ \A m \in OpenApiMethods \cup {"HEAD"} :
          acceptsRequestBody(m) <=> m \in {"POST", "PUT", "PATCH", "DELETE"}
    /\ (Reconciled /\ Shape # "void" /\ TheMethod \in {"GET", "HEAD"}) =>
          IF Shape = "array" THEN input = SuppliedQuery
          ELSE MergedWith(input, req.query)
    /\ (Reconciled /\ Shape # "void"
            /\ TheMethod \in {"POST", "PUT", "PATCH", "DELETE"}) =>
          IF Shape = "array" THEN input = SuppliedBody
          ELSE MergedWith(input, SpreadFields(SuppliedBody))

\* POST /hello with body {name: 'Aphex'} and query {id: 'q'}: the input is
\* the body, the query is left out
C15_Witness ==
    /\ Reconciled /\ Shape = "object"
    /\ TheMethod = "POST" /\ found.path = "postHello"
    /\ req.query = {<<"id", "q">>}
    /\ SuppliedBody = Obj({<<"name", "Aphex">>})
    /\ input = Obj({<<"name", "Aphex">>})

----------------------------------------------------------------------------
(* C16 *)

\* C16: whatever createContext throws, the request ends with a response of
\* code INTERNAL_SERVER_ERROR and of status 500 (or the status the
\* responseMeta hook returns), and the procedure is not invoked.
C16_ContextFailureIsInternal ==
    (log.failed = "context" /\ pc \in {"done", "fault"}) =>
        /\ pc = "done"
        /\ Responded
        /\ <<"code", "INTERNAL_SERVER_ERROR">> \in Envelope.body.fields
        /\ Envelope.statusCode = StatusOr(500)
        /\ log.invoked = 0

----------------------------------------------------------------------------
(* C17 *)

\* C17: the onError hook has no part in the outcome: a request for which
\* the hook was called ends with a response, as it does when no hook is
\* configured, whatever the hook did.
C17_OnErrorIsSideChannel ==
    (log.onError # <<>> /\ pc \in {"done", "fault"}) =>
        /\ pc = "done"
        /\ Responded
        /\ Envelope.statusCode # 0

----------------------------------------------------------------------------
(* C18 *)

\* a request that failed at a stage that follows the match
FailedAfterMatch ==
    /\ pc \in {"done", "fault"}
    /\ \/ log.failed \in {"decode", "reconcile", "context", "validate", "logic"}
       \/ log.failed = "request" /\ Matching # {}

\* C18: with an onError hook configured, a request that fails after the
\* match has had the hook called exactly once when it ends, with the error,
\* the type and the path of the matched procedure, and the input and the
\* context made so far, and it ends with the error response; the hook is
\* not called for a request that succeeds.
C18_OnErrorExactlyOnce ==
    /\ (hooks.onError /\ FailedAfterMatch) =>
          /\ pc = "done" /\ Responded
          /\ Len(log.onError) = 1
          /\ log.onError[1].type = router[Target].type
          /\ log.onError[1].path = <<router[Target].name>>
          /\ log.onError[1].input = input
          /\ log.onError[1].ctx = ctx
          /\ <<"code", log.onError[1].code>> \in Envelope.body.fields
    /\ (pc = "done" /\ log.failed = "none") => log.onError = <<>>

----------------------------------------------------------------------------
(* C19 *)

\* C19: when the probe request, a GET that was answered with success
\* before, is handled again with success after any other requests, the
\* answer is the one it got the first time.
C19_RepeatedGetSameAnswer ==
    (pc = "done" /\ IsProbe /\ log.failed = "none" /\ log.invoked = 1
        /\ seen # NoResponse) =>
        Answer = seen

----------------------------------------------------------------------------
(* OpenAPI documentation: getParameterObjects and getRequestBodyObject      *)
(*                                                                         *)
(* A schema is what the two functions read of it: whether it is a Zod      *)
(* validator, what schema.isOptional() answers, the kind of the schema     *)
(* that unwrapZodType(schema, true) gives, the fields of its shape in      *)
(* Object.keys order (each with its name and whether it is declared        *)
(* .optional()), and for an array the kind of its element.  The JSON       *)
(* schema that zodToJsonSchema makes of a field is stood for by the name   *)
(* of the field; a description is not modelled.                            *)

\* the keys that schemas, path templates and examples are made of
Names == {"id", "q", "parameter"}

SeqsUpTo(S, n) == UNION { [1..k -> S] : k \in 0..n }

Includes(seq, x) == \E i \in DOMAIN seq : seq[i] = x

MinOf(S) == CHOOSE i \in S : \A j \in S : i <= j

\* the shapes of z.object({...})
ZodShapes ==
    { sh \in SeqsUpTo([name : Names, optional : BOOLEAN], MaxFields) :
        \A i, j \in DOMAIN sh : sh[i].name = sh[j].name => i = j }

ZodSchema(kind, optional, shape, element) ==
    [kind |-> kind, optional |-> optional, shape |-> shape,
     element |-> element]

\* what the caller passes as `schema`: no Zod validator, z.void(),
\* z.string(), z.object(shape), z.array(z.string()), z.array(z.object(shape)),
\* the last four as they are or wrapped in .optional()
ZodSchemas ==
    {ZodSchema("notzod", FALSE, <<>>, "none"),
     ZodSchema("void", TRUE, <<>>, "none")}
    \cup { ZodSchema("string", o, <<>>, "none") : o \in BOOLEAN }
    \cup { ZodSchema("object", o, sh, "none") :
             o \in BOOLEAN, sh \in ZodShapes }
    \cup { ZodSchema("array", o, <<>>, "string") : o \in BOOLEAN }
    \cup { ZodSchema("array", o, sh, "object") :
             o \in BOOLEAN, sh \in ZodShapes }

instanceofZodType(schema) == schema.kind # "notzod"
instanceofZodTypeLikeVoid(schema) == schema.kind = "void"
instanceofZodTypeObject(schema) == schema.kind = "object"
instanceofZodTypeArray(schema) == schema.kind = "array"
isOptional(schema) == schema.optional

\* Object.keys(shape)
ShapeKeys(shape) == [i \in DOMAIN shape |-> shape[i].name]

\* shape.omit(mask), the mask made of the path parameters
Omit(shape, pathParameters) ==
    SelectSeq(shape, LAMBDA f : ~Includes(pathParameters, f.name))

\* an example is undefined or an object; its keys are what is read of it
NoExample == [defined |-> FALSE, keys |-> {}]
Example(keys) == [defined |-> TRUE, keys |-> keys]
\* example?.[key]: the value is stood for by its key
ExampleAt(example, key) ==
    IF example.defined /\ key \in example.keys THEN key ELSE "undefined"

\* the outcomes of a call
DocUndefined == [k |-> "undefined", value |-> <<>>, error |-> NoCause,
                 key |-> "none"]
DocReturns(value) == [k |-> "returned", value |-> value, error |-> NoCause,
                      key |-> "none"]
\* throw new TRPCError({message, code: 'INTERNAL_SERVER_ERROR'}); key is
\* the name that the message quotes
DocThrows(message, key) ==
    [k |-> "thrown", value |-> <<>>,
     error |-> TRPCError("INTERNAL_SERVER_ERROR", message, "undefined"),
     key |-> key]

ParameterObject(name, in, required, example) ==
    [name |-> name, in |-> in, required |-> required, schema |-> name,
     example |-> ExampleAt(example, name)]

\* the filter of core.ts lines 314-322
InTypeKeeps(inType, isPathParameter) ==
    CASE inType = "path" -> isPathParameter
      [] inType = "query" -> ~isPathParameter
      [] OTHER -> TRUE

\* a variant that gives `required` of a path parameter by the schema
ParameterRequiredBySchema(isPathParameter, isRequired, isShapeRequired) ==
    isRequired /\ isShapeRequired

\* core.ts line 343
ParameterRequired(isPathParameter, isRequired, isShapeRequired) ==
    isPathParameter \/ (isRequired /\ isShapeRequired)

\* core.ts lines 278-398; arrayParameterName is left to its default
arrayParameterName == "parameter"

getParameterObjects(schema, pathParameters, inType, example) ==
    IF ~instanceofZodType(schema)
    THEN DocThrows("Input parser expects a Zod validator", "none")
    ELSE IF Len(pathParameters) = 0 /\ instanceofZodTypeLikeVoid(schema)
    THEN DocUndefined
    ELSE IF instanceofZodTypeObject(schema)
    THEN LET shapeKeys == ShapeKeys(schema.shape)
             missing == { i \in DOMAIN pathParameters :
                            ~Includes(shapeKeys, pathParameters[i]) }
             kept == SelectSeq(schema.shape,
                        LAMBDA f : InTypeKeeps(inType,
                                      Includes(pathParameters, f.name)))
             optionalInPath ==
                 { i \in DOMAIN kept :
                     kept[i].optional /\ Includes(pathParameters, kept[i].name) }
         IN  IF missing # {}
             THEN DocThrows("Input parser expects key from path",
                            pathParameters[MinOf(missing)])
             ELSE IF optionalInPath # {}
             THEN DocThrows("Path parameter must not be optional",
                            kept[MinOf(optionalInPath)].name)
             ELSE DocReturns(
                    [i \in DOMAIN kept |->
                       ParameterObject(
                         kept[i].name,
                         IF Includes(pathParameters, kept[i].name)
                         THEN "path" ELSE "query",
                         ParameterRequired(
                            Includes(pathParameters, kept[i].name),
                            ~isOptional(schema), ~kept[i].optional),
                         example)])
    ELSE IF instanceofZodTypeArray(schema)
    THEN LET isPathParameter == Includes(pathParameters, arrayParameterName)
         IN  IF isPathParameter /\ inType # "path"
             THEN DocUndefined
             ELSE IF ~isPathParameter /\ inType # "query"
             THEN DocUndefined
             \* the unwrapped schema is no ZodOptional: lines 368-376 pass
             ELSE DocReturns(
                    <<ParameterObject(
                        arrayParameterName,
                        IF isPathParameter THEN "path" ELSE "query",
                        isPathParameter \/ ~isOptional(schema),
                        example)>>)
    ELSE DocThrows("Input parser must be a ZodObject or ZodArray", "none")

\* the request body: whether it is required, the kind and the fields of
\* the schema it describes, and per content type the example it shows
RequestBodyObject(required, kind, element, shape, contentTypes, example) ==
    [required |-> required, kind |-> kind, element |-> element,
     shape |-> shape,
     content |-> { contentTypes[i] : i \in DOMAIN contentTypes },
     example |-> example]

\* core.ts lines 431-441: the example without the path parameters.  Lines
\* 477-488 never act: example && { ...example } is no array
DedupedExample(kind, pathParameters, example) ==
    IF ~example.defined \/ kind # "object"
    THEN example
    ELSE Example({ key \in example.keys : ~Includes(pathParameters, key) })

\* core.ts lines 400-520
getRequestBodyObject(schema, pathParameters, contentTypes, example) ==
    IF ~instanceofZodType(schema)
    THEN DocThrows("Input parser expects a Zod validator", "none")
    ELSE IF Len(pathParameters) = 0 /\ instanceofZodTypeLikeVoid(schema)
    THEN DocUndefined
    ELSE IF ~instanceofZodTypeObject(schema) /\ ~instanceofZodTypeArray(schema)
    THEN DocThrows("Input parser must be a ZodObject or ZodArray", "none")
    ELSE IF instanceofZodTypeObject(schema)
    THEN LET deduped == Omit(schema.shape, pathParameters)
         IN  IF Len(pathParameters) > 0 /\ Len(deduped) = 0
             THEN DocUndefined
             ELSE DocReturns(
                    <<RequestBodyObject(
                        ~isOptional(schema), "object", "none", deduped,
                        contentTypes,
                        DedupedExample("object", pathParameters, example))>>)
    ELSE IF schema.element = "object"
    THEN LET deduped == Omit(schema.shape, pathParameters)
         IN  IF Len(pathParameters) > 0 /\ Len(deduped) = 0
             THEN DocUndefined
             ELSE DocReturns(
                    <<RequestBodyObject(
                        ~isOptional(schema), "array", "object", deduped,
                        contentTypes,
                        DedupedExample("array", pathParameters, example))>>)
    ELSE DocReturns(
           <<RequestBodyObject(
               ~isOptional(schema), "array", schema.element, <<>>,
               contentTypes,
               DedupedExample("array", pathParameters, example))>>)

\* what the documentation checks draw
PathParameterLists == SeqsUpTo(Names, MaxPathParams)
InTypes == {"all", "path", "query"}
DocContentTypes ==
    {<<"application/json">>,
     <<"application/json", "application/x-www-form-urlencoded">>}
DocExamples == {NoExample, Example(Names)}

DocPending == [k |-> "pending", value |-> <<>>, error |-> NoCause,
               key |-> "none"]

DocInit ==
    /\ router = MainRouter
    /\ hooks = NoHooks
    /\ entry = "doc"
    /\ pc = "doc"
    /\ event = NoEvent
    /\ req = NoRequest
    /\ found = NoProcedure
    /\ input = Undefined
    /\ ctx = Undefined
    /\ data = Undefined
    /\ cause = NoCause
    /\ res = NoResponse
    /\ ret = NoReturn
    /\ log = NoLog
    /\ coerced = {}
    /\ seen = NoResponse
    /\ calls = NoCalls
    /\ doc \in { [schema |-> s, pathParameters |-> p, inType |-> t,
                  contentTypes |-> c, example |-> e,
                  parameters |-> DocPending, requestBody |-> DocPending] :
                    s \in ZodSchemas, p \in PathParameterLists,
                    t \in InTypes, c \in DocContentTypes, e \in DocExamples }

\* a call of getParameterObjects with the drawn arguments
DocParameters ==
    /\ pc = "doc"
    /\ doc.parameters = DocPending
    /\ doc' = [doc EXCEPT !.parameters =
                  getParameterObjects(doc.schema, doc.pathParameters,
                                      doc.inType, doc.example)]
    /\ UNCHANGED <<router, hooks, entry, pc, event, req, found, input, ctx,
                   data, cause, res, ret, log, coerced, seen,
                   calls>>

\* a call of getRequestBodyObject with the drawn arguments
DocRequestBody ==
    /\ pc = "doc"
    /\ doc.requestBody = DocPending
    /\ doc' = [doc EXCEPT !.requestBody =
                  getRequestBodyObject(doc.schema, doc.pathParameters,
                                       doc.contentTypes, doc.example)]
    /\ UNCHANGED <<router, hooks, entry, pc, event, req, found, input, ctx,
                   data, cause, res, ret, log, coerced, seen,
                   calls>>

DocNext == DocParameters \/ DocRequestBody

SpecDoc == DocInit /\ [][DocNext]_vars

----------------------------------------------------------------------------
(* C20 *)

\* the documented schema is an object schema
ObjectDoc == instanceofZodTypeObject(doc.schema)

InP(name) == Includes(doc.pathParameters, name)

\* a name in P that is no field of S
MissingFromS ==
    \E i \in DOMAIN doc.pathParameters :
        ~Includes(ShapeKeys(doc.schema.shape), doc.pathParameters[i])

\* a name in P that S declares optional
OptionalInS ==
    \E i \in DOMAIN doc.schema.shape :
        doc.schema.shape[i].optional /\ InP(doc.schema.shape[i].name)

DocRejected(r) ==
    /\ r.k = "thrown"
    /\ r.error.k = "trpc"
    /\ r.error.code = "INTERNAL_SERVER_ERROR"

IsPathParameterObject(prm) == prm.in = "path"
IsQueryParameterObject(prm) == prm.in = "query"

\* the fields of S that the drawn inType asks for
FieldsAsked ==
    SelectSeq(doc.schema.shape,
              LAMBDA f : \/ doc.inType = "all"
                         \/ doc.inType = "path" /\ InP(f.name)
                         \/ doc.inType = "query" /\ ~InP(f.name))

\* C20 as stated, for the parameters: a call of getParameterObjects on an
\* object schema S with a name in P that is missing from S, or declared
\* optional in S, is rejected with INTERNAL_SERVER_ERROR.
C20_PathParameterRejected ==
    (ObjectDoc /\ doc.parameters # DocPending
        /\ (MissingFromS \/ OptionalInS)) =>
        DocRejected(doc.parameters)

\* C20: for an object schema S and path parameters P, getParameterObjects
\* rejects with INTERNAL_SERVER_ERROR a P with a name missing from S
\* whatever inType, and a P with a name declared optional in S when inType
\* is 'all' or 'path'; otherwise it returns one parameter per field asked
\* for, in the order of S, a field in P with in = 'path' and required =
\* true whatever the optionality of S, any other field with in = 'query'
\* and required when S and the field are, and the 'path' and the 'query'
\* results are the path and the query parameters of the 'all' result.
\* getRequestBodyObject rejects nothing of this: it returns no request body
\* when P is non-empty and covers every field, and otherwise a body, required
\* when S is, that describes exactly the fields of S that are not in P.
C20_FieldsSplit ==
    ObjectDoc =>
      /\ doc.parameters # DocPending =>
           /\ MissingFromS => DocRejected(doc.parameters)
           /\ (OptionalInS /\ doc.inType # "query")
                 => DocRejected(doc.parameters)
           /\ (~MissingFromS /\ (~OptionalInS \/ doc.inType = "query")) =>
                /\ doc.parameters.k = "returned"
                /\ Len(doc.parameters.value) = Len(FieldsAsked)
                /\ \A i \in DOMAIN FieldsAsked :
                     LET f == FieldsAsked[i]
                         prm == doc.parameters.value[i]
                     IN  /\ prm.name = f.name
                         /\ InP(f.name) =>
                              prm.in = "path" /\ prm.required = TRUE
                         /\ ~InP(f.name) =>
                              /\ prm.in = "query"
                              /\ prm.required =
                                   (~doc.schema.optional /\ ~f.optional)
           /\ (~MissingFromS /\ ~OptionalInS) =>
                LET all == getParameterObjects(doc.schema,
                              doc.pathParameters, "all", doc.example).value
                IN  /\ doc.inType = "all" => doc.parameters.value = all
                    /\ doc.inType = "path" =>
                         doc.parameters.value =
                            SelectSeq(all, IsPathParameterObject)
                    /\ doc.inType = "query" =>
                         doc.parameters.value =
                            SelectSeq(all, IsQueryParameterObject)
      /\ doc.requestBody # DocPending =>
           IF /\ Len(doc.pathParameters) > 0
              /\ \A i \in DOMAIN doc.schema.shape :
                    InP(doc.schema.shape[i].name)
           THEN doc.requestBody.k = "undefined"
           ELSE /\ doc.requestBody.k = "returned"
                /\ doc.requestBody.value[1].kind = "object"
                /\ doc.requestBody.value[1].required = ~doc.schema.optional
                /\ doc.requestBody.value[1].shape =
                     SelectSeq(doc.schema.shape, LAMBDA f : ~InP(f.name))

\* an optional object schema with a path parameter and an optional other
\* field, documented for every field, with its request body
C20_Witness ==
    /\ ObjectDoc
    /\ doc.schema.optional
    /\ doc.schema.shape = <<[name |-> "id", optional |-> FALSE],
                            [name |-> "q", optional |-> TRUE]>>
    /\ doc.pathParameters = <<"id">>
    /\ doc.inType = "all"
    /\ doc.parameters.k = "returned"
    /\ Len(doc.parameters.value) = 2
    /\ doc.parameters.value[1].required
    /\ doc.requestBody.k = "returned"

----------------------------------------------------------------------------
(* C22 *)

\* procedures i and j of the router are registered with the same method
\* and the same normalized path, i before j
SamePair(i, j) ==
    /\ i < j
    /\ Registered(router[i]) /\ Registered(router[j])
    /\ router[i].method = router[j].method
    /\ normalizePath(router[i].path) = normalizePath(router[j].path)

\* the descriptors the index holds under method m for the pattern of
\* normalized path p
DescriptorsOf(m, p) ==
    LET entries == procedureCache(router)[m]
    IN  {k \in 1..Len(entries) : entries[k].re = getPathRegExp(p)}

\* the lookup never returns the later procedure of such a pair
LookupSkipsLater ==
    (pc = "looked_up" /\ found.ok) =>
        \A i, j \in 1..Len(router) : SamePair(i, j) => found.procedure # j

\* C22: the index built from the router holds at most one descriptor per
\* method and normalized path: of two procedures that declare the same
\* method and the same normalized path only the one registered first is in
\* the index, and lookup returns it.
C22_OneDescriptorPerPath ==
    /\ \A i \in 1..Len(router) :
          Registered(router[i]) =>
             Cardinality(DescriptorsOf(router[i].method,
                                       normalizePath(router[i].path))) <= 1
    /\ \A i, j \in 1..Len(router) :
          SamePair(i, j) =>
             \A k \in DescriptorsOf(router[j].method,
                                    normalizePath(router[j].path)) :
                procedureCache(router)[router[j].method][k].procedure # j
    /\ LookupSkipsLater

\* the procedures of the router that are registered under method m
RegisteredUnder(m) ==
    {i \in 1..Len(router) : Registered(router[i]) /\ router[i].method = m}

\* C22: the index built from the router holds one descriptor for every
\* registered procedure, in the order of registration, those of two
\* procedures that declare the same method and the same normalized path
\* included; lookup goes by that order, so for a path that the pattern of
\* such a pair matches it returns the procedure registered first (or one
\* registered before it) and never the later one.
C22_FirstOfPairIsReturned ==
    /\ \A m \in OpenApiMethods :
          LET entries == procedureCache(router)[m]
          IN  /\ Len(entries) = Cardinality(RegisteredUnder(m))
              /\ {entries[k].procedure : k \in 1..Len(entries)}
                    = RegisteredUnder(m)
              /\ \A j, k \in 1..Len(entries) :
                    j < k => entries[j].procedure < entries[k].procedure
    /\ LookupSkipsLater
    /\ pc = "looked_up" =>
          \A i, j \in 1..Len(router) :
             (SamePair(i, j) /\ i \in Matching) =>
                 found.ok /\ found.procedure <= i

\* GET /hello declared twice ('/hello' and 'hello/'), and GET /hello asked
\* for: both descriptors are in the index and the first is returned
C22_Witness ==
    /\ pc = "looked_up"
    /\ Len(router) = 2
    /\ SamePair(1, 2)
    /\ router[1].path = <<Slash, "hello">>
    /\ router[2].path = <<"hello", Slash>>
    /\ Len(procedureCache(router)[req.method]) = 2
    /\ Matching = {1, 2}
    /\ found.ok /\ found.procedure = 1

----------------------------------------------------------------------------
(* Concurrent invocations on one node-http handler                         *)
(*                                                                         *)
(* The handler is an async function: an invocation runs until it awaits    *)
(* (getBody at line 131, createContext at line 170, the procedure at line  *)
(* 187) and other invocations run in between.  An action is what one       *)
(* invocation does from one await to the next; of the response only the    *)
(* data or the failure is kept.  The router, and with it the index, and    *)
(* the coerce flags of the schemas are what the invocations have in        *)
(* common.                                                                 *)

\* an invocation that has not been given its request
IdleCall == [pc |-> "idle", req |-> NoRequest, found |-> NoProcedure,
             input |-> Undefined, wrote |-> {}, read |-> {},
             invoked |-> FALSE, data |-> Undefined, failed |-> "none"]

\* the requests that the invocations are given
ConcRequests ==
    { r \in NodeRequests :
        /\ ~r.next /\ r.query = {} /\ r.method # "HEAD"
        /\ r.url \in { <<Slash, "users", Slash, "me">>, <<Slash, "hello">>,
                       <<Slash, "nope">> }
        /\ r.method = "GET" => (r.raw = "" /\ r.contentType = "none")
        /\ r.method = "POST" => r.contentType = "application/json" }

\* the schemas whose coerce flag the coercion pass sets for a procedure
\* (lines 151-168): its own coercible fields
FlagsWritten(r, i) ==
    IF r[i].shape \in {"object", "array"} /\ r[i].coercible THEN {i} ELSE {}

\* the schemas whose coerce flag the validation of a procedure's input
\* reads: its own fields and the schema objects it holds with others
FlagsRead(r, i) ==
    FlagsWritten(r, i) \cup (IF r[i].shares # 0 THEN {r[i].shares} ELSE {})

\* lines 126-173 from the decoded body or the query on: the input is
\* reconciled, the flags are set, createContext is called
AfterBody(call) ==
    LET procedure == router[call.found.procedure]
        got == IF acceptsRequestBody(call.req.method) THEN getBody(call.req)
               ELSE [decodes |-> FALSE, ok |-> TRUE,
                     value |-> getQuery(call.req)]
        merged == reconcileInput(procedure.shape, got.value,
                                 call.found.pathInput)
    IN  IF procedure.shape = "void"
        THEN [call EXCEPT !.pc = "h_context",
                          !.wrote = FlagsWritten(router, call.found.procedure)]
        ELSE IF ~got.ok
        THEN [call EXCEPT !.pc = "done", !.failed = "decode"]
        ELSE IF ~merged.ok
        THEN [call EXCEPT !.pc = "done", !.failed = "reconcile"]
        ELSE [call EXCEPT !.pc = "h_context", !.input = merged.value,
                          !.wrote = FlagsWritten(router, call.found.procedure)]

\* the flags after the step that takes an invocation from `was` to `now`
FlagsAfter(was, now) ==
    IF now.pc = "h_context" /\ was.pc # "h_context"
    THEN coerced \cup now.wrote
    ELSE coerced

\* lines 99-131: the handler is called; the procedure is looked up, and
\* where no body is awaited the invocation goes on to createContext
ConcReceive(c) ==
    /\ calls[c].pc = "idle"
    /\ \E r \in ConcRequests :
         LET found1 == IF UrlParses(r.url)
                       THEN getProcedure(router, r.method,
                                         normalizePath(UrlPathname(r.url)))
                       ELSE NoProcedure
             got == [calls[c] EXCEPT !.req = r, !.found = found1]
             now == IF ~UrlParses(r.url)
                    THEN [got EXCEPT !.pc = "done", !.failed = "url"]
                    ELSE IF ~found1.ok
                    THEN [got EXCEPT !.pc = "done", !.failed = "match"]
                    ELSE IF /\ acceptsRequestBody(r.method)
                            /\ router[found1.procedure].shape # "void"
                    THEN [got EXCEPT !.pc = "h_body"]
                    ELSE AfterBody(got)
         IN  /\ calls' = [calls EXCEPT ![c] = now]
             /\ coerced' = FlagsAfter(calls[c], now)
    /\ UNCHANGED <<router, hooks, entry, pc, event, req, found, input, ctx,
                   data, cause, res, ret, log, seen, doc>>

\* line 131 on: getBody has resolved
ConcBody(c) ==
    /\ calls[c].pc = "h_body"
    /\ calls' = [calls EXCEPT ![c] = AfterBody(calls[c])]
    /\ coerced' = FlagsAfter(calls[c], AfterBody(calls[c]))
    /\ UNCHANGED <<router, hooks, entry, pc, event, req, found, input, ctx,
                   data, cause, res, ret, log, seen, doc>>

\* lines 170-187: createContext has resolved or rejected; with a context
\* the procedure is called
ConcContext(c) ==
    /\ calls[c].pc = "h_context"
    /\ \/ calls' = [calls EXCEPT ![c].pc = "h_invoke"]
       \/ calls' = [calls EXCEPT ![c].pc = "done", ![c].failed = "context"]
    /\ UNCHANGED <<router, hooks, entry, pc, event, req, found, input, ctx,
                   data, cause, res, ret, log, coerced, seen, doc>>

\* line 187: the caller validates the input with the schemas as they are
\* now, and the logic runs
ConcInvoke(c) ==
    /\ calls[c].pc = "h_invoke"
    /\ LET procedure == router[calls[c].found.procedure]
           called == [calls[c] EXCEPT
                        !.pc = "done", !.invoked = TRUE,
                        !.read = FlagsRead(router, calls[c].found.procedure)
                                    \cap coerced]
       IN  IF ~InputAccepted(procedure, calls[c].input)
           THEN calls' = [calls EXCEPT ![c] =
                            [called EXCEPT !.failed = "validate"]]
           ELSE \/ \E v \in IF procedure.echo
                              THEN {parseInput(procedure, calls[c].input,
                                               coerced)}
                              ELSE ProcedureReturns :
                      calls' = [calls EXCEPT ![c] =
                                  [called EXCEPT !.data = v]]
                \/ calls' = [calls EXCEPT ![c] =
                                [called EXCEPT !.failed = "logic"]]
    /\ UNCHANGED <<router, hooks, entry, pc, event, req, found, input, ctx,
                   data, cause, res, ret, log, coerced, seen, doc>>

ConcInit ==
    /\ router = MainRouter
    /\ hooks = NoHooks
    /\ entry = "node"
    /\ pc = "concurrent"
    /\ event = NoEvent
    /\ req = NoRequest
    /\ found = NoProcedure
    /\ input = Undefined
    /\ ctx = Undefined
    /\ data = Undefined
    /\ cause = NoCause
    /\ res = NoResponse
    /\ ret = NoReturn
    /\ log = NoLog
    /\ coerced = {}
    /\ seen = NoResponse
    /\ doc = NoDoc
    /\ calls = [c \in 1..MaxCalls |-> IdleCall]

ConcNext ==
    \E c \in 1..MaxCalls :
        \/ ConcReceive(c)
        \/ ConcBody(c)
        \/ ConcContext(c)
        \/ ConcInvoke(c)

SpecConc == ConcInit /\ [][ConcNext]_vars

----------------------------------------------------------------------------
(* C21 *)

\* C21: the invocations on one handler have nothing in common that any of
\* them writes: the router and its index stay as they were built, and an
\* invocation whose procedure was called found no coerce flag set on the
\* schemas of its procedure but those it set itself.
C21_NoSharedWrites ==
    /\ router = MainRouter
    /\ \A c \in DOMAIN calls :
          (calls[c].pc = "done" /\ calls[c].invoked) =>
              calls[c].read \subseteq calls[c].wrote

----------------------------------------------------------------------------
(* C23 *)

\* the stages that come before the procedure is called
StagesBeforeInvoke ==
    {"version", "request", "url", "match", "decode", "reconcile", "context"}

\* C23: within one request the procedure is called at most once, and only
\* when a procedure was matched, the input was reconciled and createContext
\* returned, with that input and with the context createContext returned
\* for this request; a request that failed at the match, at decoding, at
\* reconciliation or at createContext has called no procedure, and no
\* lookup, no createContext and no procedure call is made a second time.
C23_InvokedAtMostOnce ==
    /\ log.invoked <= 1 /\ log.ctxCalls <= 1 /\ log.lookups <= 1
    /\ log.invoked = 1 =>
          /\ found.ok /\ log.lookups = 1
          /\ router[found.procedure].shape # "void" =>
                input = reconcileInput(router[found.procedure].shape,
                                       IF acceptsRequestBody(req.method)
                                       THEN getBody(req).value
                                       ELSE getQuery(req),
                                       found.pathInput).value
          /\ log.invokedWith = input
          /\ log.ctxCalls = 1
          /\ ctx \in ContextValues
          /\ log.invokedCtx = ctx
    /\ log.failed \in StagesBeforeInvoke => log.invoked = 0

\* a request through the Lambda handler that was answered by the procedure,
\* called once
C23_Witness ==
    /\ pc = "done" /\ entry = "lambda"
    /\ log.failed = "none"
    /\ log.invoked = 1 /\ log.ctxCalls = 1 /\ log.lookups = 1
    /\ log.invokedCtx = ctx
    /\ ctx \in ContextValues

====
